---------------------------- MODULE Spec2Model ----------------------------
(***************************************************************************)
(* Processing Job Orchestrator (backend/app/api/v1/endpoints/documents.py) *)
(* and Error Classifier / Retry Executor (backend/app/utils/               *)
(* error_handlers.py) of the study-material generator.                     *)
(*                                                                         *)
(* Specifications:                                                         *)
(*   Spec       the job registry, upload_document, the background task     *)
(*              simulate_document_processing and get_processing_status,    *)
(*              statement by statement, scheduled as asyncio schedules     *)
(*              coroutines (a coroutine keeps the event loop until it      *)
(*              awaits or ends);                                           *)
(*   FairSpec   Spec with every ready task run by the event loop;          *)
(*   SpecRetry  one invocation of ErrorRecoveryManager.execute_with_retry  *)
(*              around a func whose outcomes are chosen per call, and      *)
(*              FairSpecRetry, in which func and the sleep always end;     *)
(*   SpecCache, SpecAnalyze, SpecOutage, SpecChunk, SpecExtract            *)
(*              the cache store, analyze_content beside it, both with a    *)
(*              failing Redis connection, the chunker and the concept      *)
(*              extractor, each introduced in its own section below.       *)
(***************************************************************************)
EXTENDS Integers, Sequences, FiniteSets, TLC

VARIABLES
    processing_jobs,   \* documents.py:28  job id -> record, or NoJob
    pc,                \* per job: the statement its task executes next
    exc,               \* per job: the exception `e` bound in the task's handler
    task_result,       \* per job: how the asyncio task ended
    running,           \* the job whose task holds the event loop, 0 when idle
    now,               \* logical clock read by datetime.utcnow()
    status_response,   \* the last answer of GET /status/{job_id}
    rx,                \* the frame of one execute_with_retry invocation
    cache,             \* cache_manager.py:231  the CacheManager and its store
    an,                \* per caller: the frame of one analyze_content call
    ck,                \* the last _chunk_content call: document and chunks
    ex,                \* the last _extract_concepts / _identify_relationships calls
    fn                 \* the last call of a helper on arguments of the caller's choice

vars == <<processing_jobs, pc, exc, task_result, running, now, status_response, rx,
          cache, an, ck, ex, fn>>

jobVars == <<processing_jobs, pc, exc, task_result, running, now, status_response>>

analysisVars == <<cache, an, ck, ex, fn>>

(***************************************************************************)
(* Bounds.                                                                 *)
(***************************************************************************)
MaxJobs == 2

JobIds == 1 .. MaxJobs

\* ids a client may ask the status of: every job id and one that is never issued
QueryIds == 1 .. (MaxJobs + 1)

NoJob == [status |-> "absent"]

NoExc == [type |-> "none", text |-> "", line |-> 0]

NoResponse == [kind |-> "none"]

(***************************************************************************)
(* Python strings: lower(), `in`, and the f-string of the handler.         *)
(***************************************************************************)
UpperAlpha == "ABCDEFGHIJKLMNOPQRSTUVWXYZ"

LowerAlpha == "abcdefghijklmnopqrstuvwxyz"

LowerChar(c) ==
    IF \E i \in 1 .. 26 : SubSeq(UpperAlpha, i, i) = c
    THEN LET i == CHOOSE k \in 1 .. 26 : SubSeq(UpperAlpha, k, k) = c
         IN  SubSeq(LowerAlpha, i, i)
    ELSE c

RECURSIVE Lower(_)
Lower(s) ==
    IF Len(s) = 0 THEN ""
    ELSE IF Len(s) = 1 THEN LowerChar(s)
    ELSE Lower(SubSeq(s, 1, Len(s) \div 2)) \o Lower(SubSeq(s, (Len(s) \div 2) + 1, Len(s)))

\* keyword in s
Contains(s, keyword) ==
    \E i \in 1 .. (Len(s) - Len(keyword) + 1) :
        SubSeq(s, i, i + Len(keyword) - 1) = keyword

(***************************************************************************)
(* Name resolution inside simulate_document_processing.                    *)
(* `from datetime import datetime` at line 158 is a binding statement of   *)
(* the function body, so `datetime` is a local name of the whole function  *)
(* and the module-level import of line 21 is not visible in it.  The local *)
(* is bound only once control has passed line 158; a read before that      *)
(* raises UnboundLocalError.                                               *)
(***************************************************************************)
LocalDatetimeImport == 158

\* is the local `datetime` bound when the try body executes `line`
DatetimeBoundAt(line) == line > LocalDatetimeImport

UnboundLocalError ==
    [type |-> "UnboundLocalError",
     text |-> "cannot access local variable 'datetime' where it is not associated with a value"]

Raised(e, line) == [type |-> e.type, text |-> e.text, line |-> line]

\* statements of the try body that call a pipeline stage
\* (parse 135, analyze 141, generate 147, persist 162-221)
StageLines == {135, 141, 147} \cup (162 .. 221)

\* statements that suspend the coroutine (await): the event loop is released
\* before the statement after them runs
SuspensionsWithHandlerAwait == {"L135", "L141", "L147", "L234"}

SuspensionPoints == {"L135", "L141", "L147"}

\* who holds the event loop after task j moved to statement `next`
LoopAfter(j, next) ==
    IF next \in SuspensionPoints \/ next = "ended" THEN 0 ELSE j

CanRun(j) == running \in {0, j}

(***************************************************************************)
(* upload_document, lines 90-105: the record as created, and the task      *)
(* scheduled with asyncio.create_task (it starts at line 129 when the      *)
(* event loop next runs it).                                               *)
(***************************************************************************)
NewJobRecord(t) ==
    [status         |-> "processing",
     progress       |-> 0,
     message        |-> "Document uploaded, starting processing...",
     study_guide_id |-> "unset",
     created_at     |-> t,
     updated_at     |-> t]

upload_document(j) ==
    /\ running = 0
    /\ processing_jobs[j] = NoJob
    /\ processing_jobs' = [processing_jobs EXCEPT ![j] = NewJobRecord(now + 1)]
    /\ now' = now + 1
    /\ pc' = [pc EXCEPT ![j] = "L129"]
    /\ UNCHANGED <<exc, task_result, running, status_response, rx, analysisVars>>

(***************************************************************************)
(* simulate_document_processing, lines 123-235, one action per statement.  *)
(* Lines 134-230 are never reached: the read of `datetime` at line 131     *)
(* raises before the first stage is called.                                *)
(***************************************************************************)
\* a write through one record shared by all jobs, where the code indexes
\* the registry by job_id
SetFieldOfEveryJob(j, field, value) ==
    processing_jobs' = [b \in JobIds |->
                           IF processing_jobs[b] = NoJob THEN NoJob
                           ELSE [processing_jobs[b] EXCEPT ![field] = value]]

SetField(j, field, value) ==
    processing_jobs' = [processing_jobs EXCEPT ![j][field] = value]

Goto(j, next) ==
    /\ pc' = [pc EXCEPT ![j] = next]
    /\ running' = LoopAfter(j, next)

\* line 129: processing_jobs[job_id]["progress"] = 5
StartProgress(j) ==
    /\ pc[j] = "L129"
    /\ CanRun(j)
    /\ SetField(j, "progress", 5)
    /\ Goto(j, "L130")
    /\ UNCHANGED <<exc, task_result, now, status_response, rx, analysisVars>>

\* line 130: processing_jobs[job_id]["message"] = "Starting document parsing..."
StartMessage(j) ==
    /\ pc[j] = "L130"
    /\ CanRun(j)
    /\ SetField(j, "message", "Starting document parsing...")
    /\ Goto(j, "L131")
    /\ UNCHANGED <<exc, task_result, now, status_response, rx, analysisVars>>

\* line 131: processing_jobs[job_id]["updated_at"] = datetime.utcnow().isoformat()
\* raises inside the try body when the local is unbound: control goes to the
\* handler of line 231 with e bound, and line 232 only logs
StartStamp(j) ==
    /\ pc[j] = "L131"
    /\ CanRun(j)
    /\ IF DatetimeBoundAt(131)
       THEN /\ SetField(j, "updated_at", now + 1)
            /\ now' = now + 1
            /\ Goto(j, "L134")
            /\ UNCHANGED exc
       ELSE /\ exc' = [exc EXCEPT ![j] = Raised(UnboundLocalError, 131)]
            /\ Goto(j, "L233")
            /\ UNCHANGED <<processing_jobs, now>>
    /\ UNCHANGED <<task_result, status_response, rx, analysisVars>>

\* line 233: processing_jobs[job_id]["status"] = "failed"
FailedStatusResetsProgress(j) ==
    /\ pc[j] = "L233"
    /\ CanRun(j)
    /\ processing_jobs' = [processing_jobs EXCEPT ![j]["status"] = "failed",
                                                  ![j]["progress"] = 0]
    /\ Goto(j, "L234")
    /\ UNCHANGED <<exc, task_result, now, status_response, rx, analysisVars>>

\* a handler that logs and goes on without writing the status
FailedStatusNotWritten(j) ==
    /\ pc[j] = "L233"
    /\ CanRun(j)
    /\ Goto(j, "L234")
    /\ UNCHANGED <<processing_jobs, exc, task_result, now, status_response, rx, analysisVars>>

FailedStatus(j) ==
    /\ pc[j] = "L233"
    /\ CanRun(j)
    /\ SetField(j, "status", "failed")
    /\ Goto(j, "L234")
    /\ UNCHANGED <<exc, task_result, now, status_response, rx, analysisVars>>

\* line 234: processing_jobs[job_id]["message"] = f"Processing failed: {str(e)}"
FailedMessageWithoutCause(j) ==
    /\ pc[j] = "L234"
    /\ CanRun(j)
    /\ SetField(j, "message", "Processing failed: internal error")
    /\ Goto(j, "L235")
    /\ UNCHANGED <<exc, task_result, now, status_response, rx, analysisVars>>

FailedMessage(j) ==
    /\ pc[j] = "L234"
    /\ CanRun(j)
    /\ SetField(j, "message", "Processing failed: " \o exc[j].text)
    /\ Goto(j, "L235")
    /\ UNCHANGED <<exc, task_result, now, status_response, rx, analysisVars>>

\* line 235: processing_jobs[job_id]["updated_at"] = datetime.utcnow().isoformat()
\* the handler reads the same local: it is bound only if the exception arose
\* after line 158.  A raise here leaves the coroutine, the task ends with it.
FailedStamp(j) ==
    /\ pc[j] = "L235"
    /\ CanRun(j)
    /\ IF DatetimeBoundAt(exc[j].line)
       THEN /\ SetField(j, "updated_at", now + 1)
            /\ now' = now + 1
            /\ task_result' = [task_result EXCEPT ![j] = "returned"]
       ELSE /\ task_result' = [task_result EXCEPT ![j] = UnboundLocalError.type]
            /\ UNCHANGED <<processing_jobs, now>>
    /\ Goto(j, "ended")
    /\ UNCHANGED <<exc, status_response, rx, analysisVars>>

simulate_document_processing(j) ==
    \/ StartProgress(j)
    \/ StartMessage(j)
    \/ StartStamp(j)
    \/ FailedStatus(j)
    \/ FailedMessage(j)
    \/ FailedStamp(j)

(***************************************************************************)
(* get_processing_status, lines 238-256.  The handler has no await: it     *)
(* runs when the event loop is free and finishes before anything else.     *)
(***************************************************************************)
NotFound(q) == [kind |-> "404", job_id |-> q, detail |-> "Job ID not found"]

StatusOf(q, job_info) ==
    [kind           |-> "200",
     job_id         |-> q,
     status         |-> job_info.status,
     progress       |-> job_info.progress,
     message        |-> job_info.message,
     study_guide_id |-> job_info.study_guide_id]

\* the registry after a status query for q (a plain dict lookup: no insertion)
RegistryAfterQueryInserting(q) ==
    IF q \in JobIds /\ processing_jobs[q] = NoJob
    THEN [processing_jobs EXCEPT ![q] = NewJobRecord(now)]
    ELSE processing_jobs

RegistryAfterQuery(q) == processing_jobs

JobKnown(q) == q \in JobIds /\ processing_jobs[q] # NoJob

get_processing_status(q) ==
    /\ running = 0
    /\ status_response' =
          IF ~JobKnown(q) THEN NotFound(q) ELSE StatusOf(q, processing_jobs[q])
    /\ processing_jobs' = RegistryAfterQuery(q)
    /\ UNCHANGED <<pc, exc, task_result, running, now, rx, analysisVars>>

(***************************************************************************)
(* ErrorRecoveryManager, error_handlers.py lines 20-136.                   *)
(***************************************************************************)
DefaultMaxRetries == 3

BaseDelaySeconds == 1

MaxDelaySeconds == 60

JitterPercent == 10

\* largest explicit max_retries argument tried (None selects the default)
MaxRetriesArg == 2

\* the max_retries argument: None, or an integer
NoneArg == [given |-> FALSE]

IntArg(n) == [given |-> TRUE, value |-> n]

MaxRetriesArgs == {NoneArg} \cup {IntArg(n) : n \in -1 .. MaxRetriesArg}

Values == {"v1", "v2"}

\* exceptions func may raise: one or two per band and per way of reaching it
ExceptionPool ==
    { [type |-> "TimeoutError", text |-> "Connection timeout"],
      [type |-> "OSError",      text |-> "Disk full"],
      [type |-> "Exception",    text |-> "Rate limit exceeded"],
      [type |-> "Exception",    text |-> "boom"],
      [type |-> "ValueError",   text |-> "Invalid input"],
      [type |-> "KeyError",     text |-> "job"],
      [type |-> "Exception",    text |-> "Database is locked"],
      [type |-> "RuntimeError", text |-> "boom"],
      [type |-> "ValueError",   text |-> "Database connection failed"],
      [type |-> "RuntimeError", text |-> "Quota: item not found"] }

\* str(exception): the message, and for KeyError the repr of the key
Str(e) == IF e.type = "KeyError" THEN "'" \o e.text \o "'" ELSE e.text

\* the classes an exception of the given class is an instance of
Bases(type) ==
    CASE type \in {"TimeoutError", "ConnectionError"} -> {type, "OSError", "Exception"}
      [] OTHER -> {type, "Exception"}

IsInstance(e, classes) == Bases(e.type) \cap classes # {}

AnyKeyword(s, keywords) == \E k \in keywords : Contains(s, k)

TransientKeywords == {"timeout", "connection", "network", "socket", "502", "503", "504"}

RecoverableKeywords == {"rate limit", "too many requests", "429", "quota", "limit exceeded"}

PermanentKeywords == {"validation", "invalid", "not found", "40", "404", "422"}

CriticalKeywords == {"database", "connection failed", "500", "internal server error"}

\* lines 78-117
ClassifyCriticalFirst(e) ==
    LET exception_str == Lower(Str(e)) IN
    IF AnyKeyword(exception_str, CriticalKeywords) THEN "CRITICAL"
    ELSE IF AnyKeyword(exception_str, TransientKeywords) THEN "TRANSIENT"
    ELSE IF AnyKeyword(exception_str, RecoverableKeywords) THEN "RECOVERABLE"
    ELSE IF AnyKeyword(exception_str, PermanentKeywords) THEN "PERMANENT"
    ELSE IF IsInstance(e, {"TimeoutError", "ConnectionError", "OSError"}) THEN "TRANSIENT"
    ELSE IF IsInstance(e, {"ValueError", "AttributeError", "KeyError"}) THEN "PERMANENT"
    ELSE IF IsInstance(e, {"RuntimeError"}) THEN "CRITICAL"
    ELSE "RECOVERABLE"

classify_error(e) ==
    LET exception_str == Lower(Str(e)) IN
    IF AnyKeyword(exception_str, TransientKeywords) THEN "TRANSIENT"
    ELSE IF AnyKeyword(exception_str, RecoverableKeywords) THEN "RECOVERABLE"
    ELSE IF AnyKeyword(exception_str, PermanentKeywords) THEN "PERMANENT"
    ELSE IF AnyKeyword(exception_str, CriticalKeywords) THEN "CRITICAL"
    ELSE IF IsInstance(e, {"TimeoutError", "ConnectionError", "OSError"}) THEN "TRANSIENT"
    ELSE IF IsInstance(e, {"ValueError", "AttributeError", "KeyError"}) THEN "PERMANENT"
    ELSE IF IsInstance(e, {"RuntimeError"}) THEN "CRITICAL"
    ELSE "RECOVERABLE"

Min(a, b) == IF a < b THEN a ELSE b

Max(a, b) == IF a > b THEN a ELSE b

RECURSIVE Pow2(_)
Pow2(n) == IF n <= 0 THEN 1 ELSE 2 * Pow2(n - 1)

\* random.uniform(-jitter, jitter), sampled at its ends and its middle
JitterSamples(jitter) == {0 - jitter, 0, jitter}

\* lines 119-128, in milliseconds; u is the value drawn by random.uniform
CalculateDelayUncapped(attempt, u) ==
    Max(0, BaseDelaySeconds * 1000 * Pow2(attempt) + u)

calculate_delay(attempt, u) ==
    LET delay == Min(BaseDelaySeconds * 1000 * Pow2(attempt), MaxDelaySeconds * 1000)
    IN  Max(0, delay + u)

JitterOf(attempt) ==
    (Min(BaseDelaySeconds * 1000 * Pow2(attempt), MaxDelaySeconds * 1000)
        * JitterPercent) \div 100

\* the guard `attempt < max_retries` of lines 47, 52 and 66
BudgetLeftOffByOne(attempt, max_retries) == attempt + 1 < max_retries

BudgetLeft(attempt, max_retries) == attempt < max_retries

\* severities whose branch sleeps and continues (lines 47-56)
RetryableWithPermanent(severity) == severity \in {"TRANSIENT", "RECOVERABLE", "PERMANENT"}

Retryable(severity) == severity \in {"TRANSIENT", "RECOVERABLE"}

\* the loop variable after `continue`: the next element of range(max_retries + 1)
NextAttempt(attempt) == attempt + 1

\* `raise` inside the except block re-raises the exception being handled
ReraiseWrapped(e) == [type |-> "RuntimeError", text |-> "Failed after retries: " \o Str(e)]

Reraise(e) == e

\* `raise last_exception` with last_exception None (line 76 after an empty loop)
RaiseNone == [type |-> "TypeError", text |-> "exceptions must derive from BaseException"]

\* lines 35-40: resolve the budget, enter the loop or fall through to line 76
execute_with_retry(arg) ==
    /\ rx.pc = "idle"
    /\ fn.pc = "idle"
    /\ LET mr == IF arg = NoneArg THEN DefaultMaxRetries ELSE arg.value IN
       rx' = IF mr + 1 > 0
             THEN [rx EXCEPT !.pc = "attempt", !.max_retries = mr, !.attempt = 0]
             ELSE [rx EXCEPT !.pc = "raised", !.max_retries = mr, !.raised = RaiseNone]
    /\ UNCHANGED <<jobVars, analysisVars>>

\* line 42: func returned
FuncReturns(v) ==
    /\ rx.pc = "attempt"
    /\ rx' = [rx EXCEPT !.pc = "returned", !.result = v,
                        !.log = Append(@, [kind |-> "return", value |-> v])]
    /\ UNCHANGED <<jobVars, analysisVars>>

\* lines 43-73: func raised e.  func is a function object: the log lines of
\* every branch format func.__name__.
FuncRaises(e, u) ==
    /\ rx.pc = "attempt"
    /\ LET severity == classify_error(e)
           entry == [kind |-> "raise", exc |-> e, severity |-> severity]
           seen == [rx EXCEPT !.last_exception = e, !.log = Append(@, entry)]
       IN  rx' =
             IF Retryable(severity) /\ BudgetLeft(rx.attempt, rx.max_retries)
             THEN [seen EXCEPT !.pc = "sleeping",
                               !.delay = calculate_delay(rx.attempt, u),
                               !.sleeps = @ + 1]
             ELSE IF severity = "PERMANENT"
             THEN [seen EXCEPT !.pc = "raised", !.raised = Reraise(e)]
             ELSE IF severity = "CRITICAL"
             THEN [seen EXCEPT !.pc = "alert"]
             ELSE [seen EXCEPT !.pc = "raised", !.raised = Reraise(e)]
    /\ UNCHANGED <<jobVars, analysisVars>>

\* the largest attempt number handed to _calculate_delay on its own
MaxDelayAttempt == 7

\* lines 119-128: _calculate_delay called on an attempt number of the
\* caller's choice
delay_call(attempt, u) ==
    /\ rx.pc = "idle"
    /\ fn.pc = "idle"
    /\ fn' = [pc |-> "delayed", attempt |-> attempt, u |-> u,
              delay |-> calculate_delay(attempt, u)]
    /\ UNCHANGED <<jobVars, rx, cache, an, ck, ex>>

\* lines 62-63 and 130-136: _alert_critical_error, then `raise`
AlertCritical ==
    /\ rx.pc = "alert"
    /\ rx' = [rx EXCEPT !.pc = "raised",
                        !.alerts = Append(@, rx.last_exception),
                        !.raised = Reraise(rx.last_exception)]
    /\ UNCHANGED <<jobVars, analysisVars>>

\* lines 50-51, 55-56: asyncio.sleep(delay) is over, `continue`
WakeUp ==
    /\ rx.pc = "sleeping"
    /\ LET next == NextAttempt(rx.attempt) IN
       rx' = IF next <= rx.max_retries
             THEN [rx EXCEPT !.pc = "attempt", !.attempt = next]
             ELSE [rx EXCEPT !.pc = "raised", !.raised = rx.last_exception]
    /\ UNCHANGED <<jobVars, analysisVars>>

(***************************************************************************)
(* Cache Store (backend/app/utils/cache_manager.py).                       *)
(* CacheManager keeps its entries either in a Redis server or, when no     *)
(* Redis URL is configured or the server does not answer the constructor's *)
(* ping, in the dictionary _memory_cache.  Time is in seconds.             *)
(***************************************************************************)
MaxTTL == 1

MaxDrift == 2

AnalyzedContentTTL == 7200

DocumentIds == {"d1", "d2"}

\* lines 176 and 183: f"analyzed_content:{document_id}"
AnalyzedContentKey(document_id) == "analyzed_content:" \o document_id

CacheKeys == {AnalyzedContentKey(d) : d \in DocumentIds}

\* Python's None, the `absent` of get
NoneValue == [none |-> TRUE]

NoEntry == [present |-> FALSE]

\* pickle.dumps / pickle.loads (lines 75 and 53)
Pickle(value) == [pickled |-> value]

Unpickle(bytes) == bytes.pickled

\* line 79: datetime.now() + timedelta(seconds=ttl) if ttl > 0 else None
Expiry(c, ttl) == IF ttl > 0 THEN [set |-> TRUE, at |-> c.now + ttl] ELSE [set |-> FALSE]

\* lines 59 and 138: expiry is None or expiry > datetime.now()
MemoryLiveAtExpiry(entry, t) == (~entry.expiry.set) \/ entry.expiry.at >= t

MemoryLive(entry, t) == (~entry.expiry.set) \/ entry.expiry.at > t

\* the Redis server holds a key until its SETEX time to live has elapsed
RedisLive(entry, t) == entry.present /\ entry.expire_at > t

\* lines 56-63 and 135-143: the dictionary after a lookup of key, which
\* removes the entry it finds expired
MemoryAfterLookup(c, key) ==
    LET entry == c.memory_cache[key] IN
    IF entry.present /\ ~MemoryLive(entry, c.now)
    THEN [c.memory_cache EXCEPT ![key] = NoEntry]
    ELSE c.memory_cache

\* lines 49-67: what get returns; an exception of the client is logged and
\* None is returned
GetValue(c, key) ==
    IF c.use_redis
    THEN IF c.redis_up /\ RedisLive(c.redis_db[key], c.now)
         THEN Unpickle(c.redis_db[key].value)
         ELSE NoneValue
    ELSE LET entry == c.memory_cache[key] IN
         IF entry.present /\ MemoryLive(entry, c.now)
         THEN entry.value
         ELSE NoneValue

\* lines 131-147: what exists returns
ExistsValue(c, key) ==
    IF c.use_redis
    THEN c.redis_up /\ RedisLive(c.redis_db[key], c.now)
    ELSE LET entry == c.memory_cache[key] IN
         entry.present /\ MemoryLive(entry, c.now)

\* line 76: SETEX is refused by the server unless the time to live is positive
SetexAccepted(c, ttl) == c.redis_up /\ ttl > 0

\* lines 73-84: what set returns
SetValue(c, ttl) == IF c.use_redis THEN SetexAccepted(c, ttl) ELSE TRUE

StoreKeepingFirst(c, key, value, ttl) ==
    IF c.use_redis
    THEN IF SetexAccepted(c, ttl) /\ ~RedisLive(c.redis_db[key], c.now)
         THEN [c EXCEPT !.redis_db[key] =
                  [present |-> TRUE, value |-> Pickle(value), expire_at |-> c.now + ttl]]
         ELSE c
    ELSE IF c.memory_cache[key].present
         THEN c
         ELSE [c EXCEPT !.memory_cache[key] =
                  [present |-> TRUE, value |-> value, expiry |-> Expiry(c, ttl)]]

\* lines 74-80: the store after set(key, value, ttl)
Store(c, key, value, ttl) ==
    IF c.use_redis
    THEN IF SetexAccepted(c, ttl)
         THEN [c EXCEPT !.redis_db[key] =
                  [present |-> TRUE, value |-> Pickle(value), expire_at |-> c.now + ttl]]
         ELSE c
    ELSE [c EXCEPT !.memory_cache[key] =
             [present |-> TRUE, value |-> value, expiry |-> Expiry(c, ttl)]]

\* KEYS pattern of the Redis server, for the glob patterns used here: a
\* trailing * matches any suffix, any other character matches itself
GlobMatch(pattern, key) ==
    IF Len(pattern) > 0 /\ SubSeq(pattern, Len(pattern), Len(pattern)) = "*"
    THEN /\ Len(key) >= Len(pattern) - 1
         /\ SubSeq(key, 1, Len(pattern) - 1) = SubSeq(pattern, 1, Len(pattern) - 1)
    ELSE key = pattern

\* lines 107-120: the keys clear_pattern deletes
ClearedKeys(c, pattern) ==
    IF c.use_redis
    THEN IF c.redis_up
         THEN {k \in CacheKeys : RedisLive(c.redis_db[k], c.now) /\ GlobMatch(pattern, k)}
         ELSE {}
    ELSE {k \in CacheKeys : c.memory_cache[k].present /\ Contains(k, pattern)}

\* the store without the keys of ks
Without(c, ks) ==
    IF c.use_redis
    THEN [c EXCEPT !.redis_db = [k \in CacheKeys |-> IF k \in ks THEN NoEntry ELSE @[k]]]
    ELSE [c EXCEPT !.memory_cache = [k \in CacheKeys |-> IF k \in ks THEN NoEntry ELSE @[k]]]

\* lines 90-100: what delete returns
DeleteValue(c, key) ==
    IF c.use_redis
    THEN c.redis_up /\ RedisLive(c.redis_db[key], c.now)
    ELSE c.memory_cache[key].present

\* the last set on a key since its last delete, kept for the statements
\* about the store; [called |-> FALSE] when there is none
SetRecord(c, value, ttl) ==
    [called |-> TRUE, value |-> value, ttl |-> ttl, at |-> c.now, ok |-> SetValue(c, ttl)]

CacheUnbuilt ==
    [constructed |-> FALSE, use_redis |-> FALSE, redis_up |-> FALSE,
     memory_cache |-> [k \in CacheKeys |-> NoEntry],
     redis_db |-> [k \in CacheKeys |-> NoEntry],
     now |-> 0,
     last_set |-> [k \in CacheKeys |-> [called |-> FALSE]],
     response |-> [op |-> "none"]]

\* lines 18-35, run once by line 231: redis_url is configured or not, and
\* the server answers the ping or raises ConnectionError
CacheManagerInit(url_configured, ping_ok) ==
    /\ ~cache.constructed
    /\ cache' = [cache EXCEPT !.constructed = TRUE,
                              !.use_redis = url_configured /\ ping_ok,
                              !.redis_up = url_configured /\ ping_ok]
    /\ UNCHANGED <<jobVars, rx, an, ck, ex, fn>>

\* lines 45-67
get(key) ==
    /\ cache.constructed
    /\ cache' = [cache EXCEPT
                    !.memory_cache = IF cache.use_redis THEN @ ELSE MemoryAfterLookup(cache, key),
                    !.response = [op |-> "get", key |-> key, at |-> cache.now, value |-> GetValue(cache, key)]]
    /\ UNCHANGED <<jobVars, rx, an, ck, ex, fn>>

\* lines 69-84
set(key, value, ttl) ==
    /\ cache.constructed
    /\ cache' = [Store(cache, key, value, ttl) EXCEPT
                    !.last_set[key] = SetRecord(cache, value, ttl),
                    !.response = [op |-> "set", key |-> key, at |-> cache.now, value |-> SetValue(cache, ttl)]]
    /\ UNCHANGED <<jobVars, rx, an, ck, ex, fn>>

\* lines 86-100
delete(key) ==
    /\ cache.constructed
    /\ cache' = [Without(cache, IF cache.use_redis /\ ~cache.redis_up THEN {} ELSE {key}) EXCEPT
                    !.last_set[key] = [called |-> FALSE],
                    !.response = [op |-> "delete", key |-> key, at |-> cache.now, value |-> DeleteValue(cache, key)]]
    /\ UNCHANGED <<jobVars, rx, an, ck, ex, fn>>

\* lines 102-125
clear_pattern(pattern) ==
    /\ cache.constructed
    /\ LET ks == ClearedKeys(cache, pattern) IN
       cache' = [Without(cache, ks) EXCEPT
                    !.last_set = [k \in CacheKeys |-> IF k \in ks THEN [called |-> FALSE] ELSE @[k]],
                    !.response = [op |-> "clear_pattern", key |-> pattern, at |-> cache.now,
                                  value |-> Cardinality(ks)]]
    /\ UNCHANGED <<jobVars, rx, an, ck, ex, fn>>

\* lines 127-147
exists(key) ==
    /\ cache.constructed
    /\ cache' = [cache EXCEPT
                    !.memory_cache = IF cache.use_redis THEN @ ELSE MemoryAfterLookup(cache, key),
                    !.response = [op |-> "exists", key |-> key, at |-> cache.now, value |-> ExistsValue(cache, key)]]
    /\ UNCHANGED <<jobVars, rx, an, ck, ex, fn>>

\* datetime.now() and the server's clock advance by d seconds; the clock is
\* followed for MaxDrift seconds from the start and from one
\* AnalyzedContentTTL later
Tick(d) ==
    /\ cache.constructed
    /\ (cache.now + d) % AnalyzedContentTTL <= MaxDrift
    /\ (cache.now + d) \div AnalyzedContentTTL <= 1
    /\ cache' = [cache EXCEPT !.now = @ + d]
    /\ UNCHANGED <<jobVars, rx, an, ck, ex, fn>>

\* the connection to the Redis server is lost, or comes back: while it is
\* lost every command of the client (lines 51, 76, 92, 108-110, 133) raises
\* redis.ConnectionError inside the try block of the method
RedisConnection(up) ==
    /\ cache.constructed
    /\ cache.use_redis
    /\ cache.redis_up # up
    /\ cache' = [cache EXCEPT !.redis_up = up]
    /\ UNCHANGED <<jobVars, rx, an, ck, ex, fn>>

(***************************************************************************)
(* Content Analysis Orchestrator                                           *)
(* (backend/app/utils/content_analyzer.py, analyze_content, lines 45-84).  *)
(* Callers are tasks of one event loop or workers sharing the Redis        *)
(* server; their statements interleave freely, which includes every        *)
(* schedule of a single loop.                                              *)
(***************************************************************************)
MaxCallers == 2

Callers == 1 .. MaxCallers

\* the names bound in the module namespace of content_analyzer.py: the
\* imports of lines 1-11, logger, the class and the singleton of line 426
ModuleNames ==
    {"asyncio", "logging", "Dict", "List", "Any", "Optional", "Tuple",
     "NormalizedDocument", "ConceptCreate", "re", "Counter", "defaultdict",
     "spacy", "SentenceTransformer", "np", "cosine_similarity", "logger",
     "ContentAnalyzer", "content_analyzer"}

\* a global name that is bound nowhere raises NameError where it is read
NameError(name, line) ==
    [type |-> "NameError", text |-> "name '" \o name \o "' is not defined", line |-> line]

\* what a sub-step raises when it fails (spaCy, the sentence model, a
\* section without "content")
StepError(line) == [type |-> "Exception", text |-> "sub-step failed", line |-> line]

\* the argument: a NormalizedDocument (schemas/document.py:31-34) always has
\* document_id; line 50 also admits an object without that attribute
NormalizedDocument(document_id) == [has_id |-> TRUE, document_id |-> document_id]

NoIdDocument == [has_id |-> FALSE]

\* lines 58, 61, 64, 67, 74: the sub-steps in the order of the try block
SubSteps ==
    <<"_extract_concepts", "_identify_relationships", "_build_knowledge_graph",
      "_create_concept_map", "_chunk_content">>

StepLine(i) == <<58, 61, 64, 67, 74>>[i]

\* lines 69-75: the dictionary assembled from the outputs of the sub-steps
AnalysisResult(steps) == [analysis |-> "assembled", parts |-> steps]

\* lines 172-177: DocumentCache.get_analyzed_content
get_analyzed_content(c, document_id) == GetValue(c, AnalyzedContentKey(document_id))

\* line 52: `if cached_result:`
Truthy(value) == value # NoneValue

\* lines 82-84: the handler logs the exception and re-raises it
HandlerReturnsPartial(frame, e) ==
    [frame EXCEPT !.pc = "returned", !.logged = TRUE,
                  !.result = AnalysisResult(frame.steps)]

Handler(frame, e) == [frame EXCEPT !.pc = "raised", !.logged = TRUE, !.exc = e]

AnIdle ==
    [pc |-> "idle", document |-> NoIdDocument, steps |-> <<>>, exc |-> NoExc,
     logged |-> FALSE, result |-> NoneValue, writes |-> 0]

\* line 45: a caller awaits analyze_content(normalized_document)
analyze_content(c, doc) ==
    /\ cache.constructed
    /\ an[c].pc \in {"idle", "returned", "raised"}
    /\ an' = [an EXCEPT ![c] = [AnIdle EXCEPT !.pc = "line50", !.document = doc]]
    /\ UNCHANGED <<jobVars, rx, cache, ck, ex, fn>>

\* lines 50-54: the cache lookup.  `document_cache` is read as a global of
\* content_analyzer.py, outside the try block
CacheLookup(c) ==
    /\ an[c].pc = "line50"
    /\ LET doc == an[c].document IN
       IF ~doc.has_id
       THEN /\ an' = [an EXCEPT ![c].pc = "line58"]
            /\ UNCHANGED cache
       ELSE IF "document_cache" \notin ModuleNames
       THEN /\ an' = [an EXCEPT ![c].pc = "raised",
                                ![c].exc = NameError("document_cache", 51)]
            /\ UNCHANGED cache
       ELSE LET key == AnalyzedContentKey(doc.document_id)
                cached_result == GetValue(cache, key)
            IN  /\ cache' = [cache EXCEPT
                                !.memory_cache = IF cache.use_redis THEN @
                                                 ELSE MemoryAfterLookup(cache, key),
                                !.response = [op |-> "get", key |-> key, at |-> cache.now,
                                              value |-> cached_result]]
                /\ an' = IF Truthy(cached_result)
                         THEN [an EXCEPT ![c].pc = "returned", ![c].result = cached_result]
                         ELSE [an EXCEPT ![c].pc = "line58"]
    /\ UNCHANGED <<jobVars, rx, ck, ex, fn>>

\* lines 56-75 and 82-84: the sub-step at the frame's line returns, or
\* raises into the handler, which logs and re-raises
SubStep(c, raises) ==
    /\ \E i \in 1 .. Len(SubSteps) :
         /\ an[c].pc = "line" \o ToString(StepLine(i))
         /\ IF raises
            THEN an' = [an EXCEPT ![c] = Handler(@, StepError(StepLine(i)))]
            ELSE an' = [an EXCEPT ![c].steps = Append(@, SubSteps[i]),
                                  ![c].pc = IF i < Len(SubSteps)
                                               THEN "line" \o ToString(StepLine(i + 1))
                                               ELSE "line78"]
    /\ UNCHANGED <<jobVars, rx, cache, ck, ex, fn>>

\* lines 77-84: the cache write and the return
CacheResult(c) ==
    /\ an[c].pc = "line78"
    /\ LET doc == an[c].document
           analysis_result == AnalysisResult(an[c].steps)
       IN
       IF ~doc.has_id
       THEN /\ an' = [an EXCEPT ![c].pc = "returned", ![c].result = analysis_result]
            /\ UNCHANGED cache
       ELSE IF "document_cache" \notin ModuleNames
       THEN /\ an' = [an EXCEPT ![c] = Handler(@, NameError("document_cache", 79))]
            /\ UNCHANGED cache
       ELSE LET key == AnalyzedContentKey(doc.document_id) IN
            /\ cache' = [Store(cache, key, analysis_result, AnalyzedContentTTL) EXCEPT
                            !.last_set[key] =
                                SetRecord(cache, analysis_result, AnalyzedContentTTL),
                            !.response = [op |-> "set", key |-> key, at |-> cache.now,
                                          value |-> SetValue(cache, AnalyzedContentTTL)]]
            /\ an' = [an EXCEPT ![c].pc = "returned", ![c].result = analysis_result,
                                ![c].writes = @ + 1]
    /\ UNCHANGED <<jobVars, rx, ck, ex, fn>>

\* lines 179-184: DocumentCache.set_analyzed_content called by another
\* holder of the shared store
set_analyzed_content(document_id, analysis_result) ==
    set(AnalyzedContentKey(document_id), analysis_result, AnalyzedContentTTL)

(***************************************************************************)
(* Content Chunker (content_analyzer.py, _chunk_content, lines 384-422).   *)
(* Sizes are len() of Python strings: characters.                          *)
(***************************************************************************)
MaxSections == 3

MaxChunkSize == 1000

\* s repeated n times
RECURSIVE Rep(_, _)
Rep(s, n) ==
    IF n = 0 THEN ""
    ELSE LET half == Rep(s, n \div 2) IN
         IF n % 2 = 0 THEN half \o half ELSE half \o half \o s

\* the contents the parsers hand over (document_parser.py:87-94, 120-133,
\* 171-176, 200-204): never blank, trimmed only by some of the parsers
SectionPool ==
    {[content |-> Rep("a", 333), type |-> "paragraph"],
     [content |-> Rep("b", 332), type |-> "paragraph"],
     [content |-> Rep("c", MaxChunkSize), type |-> "paragraph"],
     [content |-> Rep("d", MaxChunkSize + 1), type |-> "table"],
     [content |-> Rep("e", 499), type |-> "paragraph"],
     [content |-> Rep("f", 500), type |-> "paragraph"],
     [content |-> "Summary\n", type |-> "heading"]}

\* the sections of a document: the i-th has position order i
SectionsOf(f) ==
    [i \in DOMAIN f |->
        [content |-> f[i].content, type |-> f[i].type,
         position |-> [page |-> 1, order |-> i]]]

ChunkDocuments ==
    {SectionsOf(f) : f \in UNION {[1 .. n -> SectionPool] : n \in 0 .. MaxSections}}

\* str.strip(): s from its first to its last character that is no whitespace
Strip(s) ==
    LET IsSpace(i) == SubSeq(s, i, i) \in {" ", "\t", "\n", "\r"}
        Blank(i, j) == \A k \in i .. j : IsSpace(k)
    IN  IF Blank(1, Len(s)) THEN ""
        ELSE SubSeq(s, CHOOSE i \in 1 .. Len(s) : ~IsSpace(i) /\ Blank(1, i - 1),
                       CHOOSE j \in 1 .. Len(s) : ~IsSpace(j) /\ Blank(j + 1, Len(s)))

\* line 396
FitsCountingSeparator(current_chunk, section_text) ==
    Len(current_chunk) + Len(section_text) + 1 < MaxChunkSize

Fits(current_chunk, section_text) ==
    Len(current_chunk) + Len(section_text) < MaxChunkSize

\* line 409
RestartEmpty(section_text) == ""

Restart(section_text) == section_text

\* lines 400-407 and 413-420: the buffer is flushed, unless blank, with the
\* position and type of the section given
Flushed(chunks, current_chunk, section) ==
    IF Strip(current_chunk) # ""
    THEN Append(chunks, [content |-> Strip(current_chunk),
                         metadata |-> [position |-> section.position,
                                       type |-> section.type]])
    ELSE chunks

\* lines 393-420 from section i on; line 397 appends " " + section_text
RECURSIVE ChunkLoop(_, _, _, _)
ChunkLoop(sections, i, chunks, current_chunk) ==
    IF i > Len(sections)
    THEN IF Len(sections) > 0
         THEN Flushed(chunks, current_chunk, sections[Len(sections)])
         ELSE chunks
    ELSE LET section == sections[i]
             section_text == section.content
         IN  IF Fits(current_chunk, section_text)
             THEN ChunkLoop(sections, i + 1, chunks, current_chunk \o " " \o section_text)
             ELSE ChunkLoop(sections, i + 1, Flushed(chunks, current_chunk, section),
                            Restart(section_text))

\* lines 384-422
chunk_content(sections) == ChunkLoop(sections, 1, <<>>, "")

CkIdle == [pc |-> "idle", sections |-> <<>>, chunks |-> <<>>]

\* a caller awaits _chunk_content(normalized_document)
ChunkCall(sections) ==
    /\ ck.pc = "idle"
    /\ ck' = [pc |-> "returned", sections |-> sections, chunks |-> chunk_content(sections)]
    /\ UNCHANGED <<jobVars, rx, cache, an, ex, fn>>

\* the caller takes the chunks
ChunkDone ==
    /\ ck.pc = "returned"
    /\ ck' = CkIdle
    /\ UNCHANGED <<jobVars, rx, cache, an, ex, fn>>

(***************************************************************************)
(* Concept Extractor and Relationship Classifier (content_analyzer.py,     *)
(* _extract_concepts, lines 86-154, _calculate_importance_score, lines     *)
(* 156-172, _appears_in_heading, lines 174-183, _identify_relationships,   *)
(* lines 237-276).  Scores are exact fractions num / den; the fields       *)
(* definition, examples, page_reference and the relationship type do not   *)
(* influence which concepts and relationships are emitted and are left out.*)
(***************************************************************************)
MaxExtractSections == 2

\* section contents: a sentence with a repeated term, one without any word
\* of four letters, a heading, and a term below ten blank lines
ExtractContents ==
    {"Paris is the capital of France. Paris has parks.",
     "It is so.",
     "Cells\n",
     "\n\n\n\n\n\n\n\n\n\nFrance"}

ExtractDocuments == UNION {[1 .. n -> ExtractContents] : n \in 1 .. MaxExtractSections}

\* what the spaCy pipeline may report for a text: named entities with
\* their labels and noun chunks, each a span of the text
Candidates(all_text) ==
    LET entities == {<<"Paris", "GPE">>, <<"France", "GPE">>}
        noun_chunks == {"Paris", "the capital", "Cells"}
    IN  {e \in entities : Contains(all_text, e[1])}
            \cup {<<chunk, "MISC">> : chunk \in {n \in noun_chunks : Contains(all_text, n)}}

IsLetter(ch) ==
    \E i \in 1 .. 26 : SubSeq(UpperAlpha, i, i) = ch \/ SubSeq(LowerAlpha, i, i) = ch

\* \w of the re module, for ASCII text
IsWordChar(ch) ==
    IsLetter(ch) \/ ch = "_" \/ \E i \in 1 .. 10 : SubSeq("0123456789", i, i) = ch

\* " ".join(...) of lines 91 and 189
RECURSIVE Join(_, _)
Join(strings, sep) ==
    IF Len(strings) = 0 THEN ""
    ELSE IF Len(strings) = 1 THEN strings[1]
    ELSE strings[1] \o sep \o Join(Tail(strings), sep)

\* the elements of a set of integers in increasing order
Ascending(S) ==
    [k \in 1 .. Cardinality(S) |-> CHOOSE x \in S : Cardinality({y \in S : y < x}) = k - 1]

\* the maximal runs of \w characters of text, in order
WordRuns(text) ==
    LET WordAt(t, i) == IsWordChar(SubSeq(t, i, i))
        starts == Ascending({i \in 1 .. Len(text) :
                      WordAt(text, i) /\ (i = 1 \/ ~WordAt(text, i - 1))})
        RunEnd(i) == CHOOSE j \in i .. Len(text) :
                      /\ \A k \in i .. j : WordAt(text, k)
                      /\ (j = Len(text) \/ ~WordAt(text, j + 1))
    IN  [k \in DOMAIN starts |-> SubSeq(text, starts[k], RunEnd(starts[k]))]

\* line 133: re.findall(r'\b[A-Za-z]{4,}\b', all_text)
FindWords(all_text) ==
    SelectSeq(WordRuns(all_text), LAMBDA w :
        Len(w) >= 4 /\ \A i \in 1 .. Len(w) : IsLetter(SubSeq(w, i, i)))

\* the number of i with words[i] = w
Frequency(words, w) == Cardinality({i \in 1 .. Len(words) : words[i] = w})

\* Counter(words).items(): the distinct words in the order of first occurrence
RECURSIVE CounterKeys(_, _)
CounterKeys(words, seen) ==
    IF Len(words) = 0 THEN <<>>
    ELSE IF Head(words) \in seen THEN CounterKeys(Tail(words), seen)
    ELSE <<Head(words)>> \o CounterKeys(Tail(words), seen \cup {Head(words)})

\* str.find: the 0-based index of the first occurrence, -1 when absent
Find(s, keyword) ==
    IF Contains(s, keyword)
    THEN (CHOOSE i \in 1 .. (Len(s) - Len(keyword) + 1) :
             /\ SubSeq(s, i, i + Len(keyword) - 1) = keyword
             /\ \A k \in 1 .. (i - 1) : SubSeq(s, k, k + Len(keyword) - 1) # keyword) - 1
    ELSE -1

\* line 116: len(re.findall(r'\b' + re.escape(term) + r'\b', text_lower)),
\* for terms that begin and end with a \w character
CountWholeWord(text_lower, term) ==
    Cardinality({i \in 1 .. (Len(text_lower) - Len(term) + 1) :
        /\ SubSeq(text_lower, i, i + Len(term) - 1) = term
        /\ (i = 1 \/ ~IsWordChar(SubSeq(text_lower, i - 1, i - 1)))
        /\ (i + Len(term) > Len(text_lower)
              \/ ~IsWordChar(SubSeq(text_lower, i + Len(term), i + Len(term))))})

\* lines 174-183; lines is all_text.split('\n')
appears_in_heading(concept, all_text) ==
    LET breaks == Ascending({i \in 1 .. Len(all_text) : SubSeq(all_text, i, i) = "\n"})
        n == Len(breaks)
        lines == [k \in 1 .. (n + 1) |->
                    SubSeq(all_text, IF k = 1 THEN 1 ELSE breaks[k - 1] + 1,
                                     IF k = n + 1 THEN Len(all_text) ELSE breaks[k] - 1)]
    IN
    \E k \in 1 .. Min(Len(lines), 10) :
        Contains(Lower(lines[k]), Lower(concept)) /\ Len(lines[k]) < 100

\* lines 156-172, in thousandths
ImportanceScoreUncapped(concept, all_text, frequency) ==
    LET base_score == frequency * 100
        first_occurrence == Find(Lower(all_text), Lower(concept))
        position_factor == IF first_occurrence * 10 < Len(all_text) * 3 THEN 10
                           ELSE IF first_occurrence * 10 < Len(all_text) * 6 THEN 7
                           ELSE 5
        heading_boost == IF appears_in_heading(concept, all_text) THEN 200 ELSE 0
    IN  (base_score * position_factor) \div 10 + heading_boost

calculate_importance_score(concept, all_text, frequency) ==
    LET base_score == Min(frequency * 100, 500)
        first_occurrence == Find(Lower(all_text), Lower(concept))
        position_factor == IF first_occurrence * 10 < Len(all_text) * 3 THEN 10
                           ELSE IF first_occurrence * 10 < Len(all_text) * 6 THEN 7
                           ELSE 5
        heading_boost == IF appears_in_heading(concept, all_text) THEN 200 ELSE 0
        final_score == (base_score * position_factor) \div 10 + heading_boost
    IN  Min(final_score, 1000)

Score(num, den) == [num |-> num, den |-> den]

\* a > b and a >= b on fractions with positive denominators
Greater(a, b) == a.num * b.den > b.num * a.den

AtLeast(a, b) == a.num * b.den >= b.num * a.den

NoConcept == [term |-> "", importance_score |-> Score(0, 1), category |-> "none"]

\* lines 110-130 for one candidate: the concept appended, NoConcept when the
\* candidate is skipped
CandidateConcept(candidate, all_text) ==
    LET concept_text == candidate[1]
        label == candidate[2]
    IN  IF Len(concept_text) < 2 \/ Len(concept_text) > 10 THEN NoConcept
        ELSE LET count == CountWholeWord(Lower(all_text), Lower(concept_text))
                 score == Score(calculate_importance_score(concept_text, all_text, count), 1000)
             IN  IF Greater(score, Score(1, 10))
                 THEN [term |-> concept_text, importance_score |-> score, category |-> label]
                 ELSE NoConcept

\* lines 104-130: the concepts appended for the candidates in the order
\* given; concept_of[candidate] is CandidateConcept of the candidate
NerConcepts(potential_concepts, concept_of) ==
    LET all == [i \in 1 .. Len(potential_concepts) |-> concept_of[potential_concepts[i]]]
    IN  SelectSeq(all, LAMBDA c : c # NoConcept)

\* lines 133-149: the concepts appended for the words of the text
FallbackConcepts(all_text) ==
    LET words == FindWords(all_text)
        total_words == Len(words)
        keys == CounterKeys(words, {})
        kept == SelectSeq(keys, LAMBDA w :
                    Greater(Score(Frequency(words, w), total_words), Score(1, 1000)))
    IN  [i \in 1 .. Len(kept) |->
            [term |-> kept[i],
             importance_score |-> Score(Frequency(words, kept[i]), total_words),
             category |-> "TERM"]]

\* validation.py lines 234-247: QualityAssurance._check_concept_similarity
\* on the terms of two concepts
check_concept_similarity(term_a, term_b) ==
    LET term1 == Lower(term_a)
        term2 == Lower(term_b)
        shorter == Min(Len(term1), Len(term2))
        longer == Max(Max(Len(term1), Len(term2)), 1)
        common_chars == Cardinality({k \in 1 .. shorter :
                            SubSeq(term1, k, k) = SubSeq(term2, k, k)})
    IN  /\ longer - shorter <= 2
        /\ common_chars * 10 > 8 * longer

\* line 152: list.sort(key=importance_score, reverse=True) is stable: a
\* concept goes behind every concept whose score is at least its own
GoesBehindStrictlyGreater(c, x) == Greater(c.importance_score, x.importance_score)

GoesBehind(c, x) == AtLeast(c.importance_score, x.importance_score)

RECURSIVE SortDescending(_)
SortDescending(concepts) ==
    IF Len(concepts) = 0 THEN <<>>
    ELSE LET x == concepts[Len(concepts)]
             sorted == SortDescending(SubSeq(concepts, 1, Len(concepts) - 1))
             ahead == Cardinality({i \in 1 .. Len(sorted) : GoesBehind(sorted[i], x)})
         IN  SubSeq(sorted, 1, ahead) \o <<x>> \o SubSeq(sorted, ahead + 1, Len(sorted))

\* all orders in which list(set(...)) of line 104 may list a set
Orderings(S) ==
    {f \in [1 .. Cardinality(S) -> S] : \A i, j \in DOMAIN f : i # j => f[i] # f[j]}

\* the similarity of the embeddings of two terms, in hundredths: equal
\* terms have equal embeddings
Similarity(sim, term1, term2) == IF term1 = term2 THEN 100 ELSE sim[{term1, term2}]

\* the unordered pairs of different terms of a concept list
TermPairs(concepts) ==
    {{concepts[i].term, concepts[j].term} : i, j \in 1 .. Len(concepts)}
        \ {{concepts[i].term} : i \in 1 .. Len(concepts)}

\* lines 241-276: the relationships appended, in order
identify_relationships(concepts, sim) ==
    LET n == Len(concepts)
        \* lines 248-249: the pairs (i, j) in the order of the two loops
        pairs == [k \in 1 .. n * n |-> <<((k - 1) \div n) + 1, ((k - 1) % n) + 1>>]
        emitting == SelectSeq(pairs, LAMBDA p :
                        /\ ~(p[1] >= p[2])
                        /\ Similarity(sim, concepts[p[1]].term, concepts[p[2]].term) > 50)
    IN  [k \in 1 .. Len(emitting) |->
            [from |-> concepts[emitting[k][1]].term,
             to |-> concepts[emitting[k][2]].term,
             strength |-> Similarity(sim, concepts[emitting[k][1]].term,
                                     concepts[emitting[k][2]].term)]]

\* no helper has been called
FnIdle == [pc |-> "idle"]

ExIdle ==
    [pc |-> "idle", nlp |-> FALSE, sections |-> <<>>, appended |-> <<>>,
     concepts |-> <<>>, relationships |-> <<>>]

\* line 91
AllText(sections) == Join(sections, " ")

\* CandidateConcept and FallbackConcepts as explicit tables over the documents
ConceptOf ==
    [sections \in ExtractDocuments |->
        [c \in Candidates(AllText(sections)) |->
            CandidateConcept(c, AllText(sections))] @@ <<>>] @@ <<>>

FallbackOf ==
    [sections \in ExtractDocuments |-> FallbackConcepts(AllText(sections))] @@ <<>>

\* lines 86-154: a caller awaits _extract_concepts.  nlp tells whether the
\* constructor loaded the spaCy pipeline (lines 23-27); the pipeline reports
\* some of the candidates, and list(set(...)) lists them in some order
extract_concepts(sections, nlp) ==
    /\ ex.pc = "idle"
    /\ fn.pc = "idle"
    /\ \E reported \in IF nlp THEN SUBSET (DOMAIN ConceptOf[sections]) ELSE {{}} :
       \E potential_concepts \in Orderings(reported) :
          LET appended == IF nlp THEN NerConcepts(potential_concepts, ConceptOf[sections])
                          ELSE FallbackOf[sections]
          IN  ex' = [pc |-> "extracted", nlp |-> nlp, sections |-> sections,
                     appended |-> appended, concepts |-> SortDescending(appended),
                     relationships |-> <<>>]
    /\ UNCHANGED <<jobVars, rx, cache, an, ck, fn>>

\* lines 237-276: a caller awaits _identify_relationships(concepts, ...)
classify_relationships ==
    /\ ex.pc = "extracted"
    /\ \E sim \in [TermPairs(ex.concepts) -> {40, 60}] :
          ex' = [ex EXCEPT !.pc = "classified",
                           !.relationships = identify_relationships(ex.concepts, sim)]
    /\ UNCHANGED <<jobVars, rx, cache, an, ck, fn>>

\* re.search(first.*?phrase.*?second, context): the three occur in this
\* order without overlap, and no line break lies between them (. matches
\* any character but "\n"); the terms contain no line break
PatternMatches(context, first, phrase, second) ==
    LET At(w) == {i \in 1 .. (Len(context) - Len(w) + 1) :
                     SubSeq(context, i, i + Len(w) - 1) = w}
    IN  \E i \in At(first) : \E j \in At(phrase) : \E k \in At(second) :
            /\ j >= i + Len(first)
            /\ k >= j + Len(phrase)
            /\ \A p \in i .. k : SubSeq(context, p, p) # "\n"

\* lines 282-300: whether both terms occur, the distance of their first
\* occurrences and the lower-cased text from 10 characters before the
\* earlier to 100 characters after the later
RelationContext(concept1, concept2, all_content) ==
    LET text_lower == Lower(all_content)
        concept1_pos == Find(text_lower, Lower(concept1))
        concept2_pos == Find(text_lower, Lower(concept2))
        start_pos == Min(concept1_pos, concept2_pos)
        end_pos == Max(concept1_pos, concept2_pos)
    IN  [found |-> ~(concept1_pos = -1 \/ concept2_pos = -1),
         distance |-> end_pos - start_pos,
         context |-> SubSeq(text_lower, Max(0, start_pos - 10) + 1,
                            Min(Len(all_content), end_pos + 100))]

\* lines 278-314
DetermineTypeIsAFirst(concept1, concept2, sections) ==
    LET c1 == Lower(concept1)
        c2 == Lower(concept2)
        rc == RelationContext(concept1, concept2, AllText(sections))
        context == rc.context
    IN  IF ~rc.found THEN "related_to"
        ELSE IF PatternMatches(context, c1, "is a", c2)
                  \/ PatternMatches(context, c1, "type of", c2) THEN "is_a"
        ELSE IF PatternMatches(context, c1, "causes", c2)
                  \/ PatternMatches(context, c2, "caused by", c1) THEN "causes"
        ELSE IF PatternMatches(context, c1, "part of", c2)
                  \/ PatternMatches(context, c2, "contains", c1) THEN "part_of"
        ELSE IF PatternMatches(context, c1, "contrasts with", c2)
                  \/ PatternMatches(context, c1, "opposite of", c2) THEN "contrasts_with"
        ELSE IF rc.distance < 100 THEN "associated_with"
        ELSE "related_to"

determine_relationship_type(concept1, concept2, sections) ==
    LET c1 == Lower(concept1)
        c2 == Lower(concept2)
        rc == RelationContext(concept1, concept2, AllText(sections))
        context == rc.context
    IN  IF ~rc.found THEN "related_to"
        ELSE IF PatternMatches(context, c1, "causes", c2)
                  \/ PatternMatches(context, c2, "caused by", c1) THEN "causes"
        ELSE IF PatternMatches(context, c1, "part of", c2)
                  \/ PatternMatches(context, c2, "contains", c1) THEN "part_of"
        ELSE IF PatternMatches(context, c1, "is a", c2)
                  \/ PatternMatches(context, c1, "type of", c2) THEN "is_a"
        ELSE IF PatternMatches(context, c1, "contrasts with", c2)
                  \/ PatternMatches(context, c1, "opposite of", c2) THEN "contrasts_with"
        ELSE IF rc.distance < 100 THEN "associated_with"
        ELSE "related_to"

\* documents about Heat and Rain: each phrasing alone, phrasings of several
\* rules together, none, a line break inside a phrasing, the terms more
\* than 100 characters apart, the terms in two sections
RelDocuments ==
    {<<"Heat causes Rain.">>,
     <<"Rain is caused by Heat.">>,
     <<"Heat is a part of Rain and Heat causes Rain.">>,
     <<"Heat is a part of Rain.">>,
     <<"Rain contains Heat.">>,
     <<"Heat is a type of Rain.">>,
     <<"Heat contrasts with Rain, the opposite of Heat is a Rain.">>,
     <<"Heat is the opposite of Rain.">>,
     <<"Heat is hot. Rain is wet.">>,
     <<"Heat causes\nRain.">>,
     <<"Heat" \o Rep(" so", 40) \o " causes Rain.">>,
     <<"Heat is a", "Rain.">>}

\* lines 278-314: _determine_relationship_type called on two terms and a
\* document of the caller's choice
relation_call(concept1, concept2, sections) ==
    /\ fn.pc = "idle"
    /\ ex.pc = "idle"
    /\ fn' = [pc |-> "typed", concept1 |-> concept1, concept2 |-> concept2,
              sections |-> sections,
              type |-> determine_relationship_type(concept1, concept2, sections)]
    /\ UNCHANGED <<jobVars, rx, cache, an, ck, ex>>

\* the largest frequency argument tried
MaxFrequency == 10

\* terms handed to the helpers: three of the contents, one of none
FnTerms == {"Paris", "France", "Cells", "Zebra"}

\* texts handed to the helpers: the texts of the documents, and no text
FnTexts == {AllText(sections) : sections \in ExtractDocuments} \cup {""}

\* lines 156-172: _calculate_importance_score called on a term, a text and
\* a frequency of the caller's choice
score_call(concept, all_text, frequency) ==
    /\ fn.pc = "idle"
    /\ ex.pc = "idle"
    /\ fn' = [pc |-> "scored", concept |-> concept, all_text |-> all_text,
              frequency |-> frequency,
              score |-> Score(calculate_importance_score(concept, all_text, frequency), 1000)]
    /\ UNCHANGED <<jobVars, rx, cache, an, ck, ex>>

\* the caller takes the helper's result
FnDone ==
    /\ fn.pc # "idle"
    /\ fn' = FnIdle
    /\ UNCHANGED <<jobVars, rx, cache, an, ck, ex>>

\* the caller takes the result
ExtractDone ==
    /\ ex.pc = "classified"
    /\ ex' = ExIdle
    /\ UNCHANGED <<jobVars, rx, cache, an, ck, fn>>

(***************************************************************************)
(* The retry frame is idle in Spec: simulate_document_processing never     *)
(* calls error_recovery_manager (imported at line 15, not used).           *)
(***************************************************************************)
RxIdle ==
    [pc |-> "idle", max_retries |-> 0, attempt |-> 0, log |-> <<>>,
     sleeps |-> 0, delay |-> 0, last_exception |-> NoExc, alerts |-> <<>>,
     result |-> "none", raised |-> NoExc]

Init ==
    /\ processing_jobs = [j \in JobIds |-> NoJob]
    /\ pc = [j \in JobIds |-> "none"]
    /\ exc = [j \in JobIds |-> NoExc]
    /\ task_result = [j \in JobIds |-> "none"]
    /\ running = 0
    /\ now = 0
    /\ status_response = NoResponse
    /\ rx = RxIdle
    /\ cache = CacheUnbuilt
    /\ an = [c \in Callers |-> AnIdle]
    /\ ck = CkIdle
    /\ ex = ExIdle
    /\ fn = FnIdle

Next ==
    \/ \E j \in JobIds : upload_document(j)
    \/ \E j \in JobIds : simulate_document_processing(j)
    \/ \E q \in QueryIds : get_processing_status(q)

Spec == Init /\ [][Next]_vars

\* asyncio runs every task that is ready: a task scheduled with create_task
\* (line 105) is started, and it is resumed after each statement and each
\* await that has returned or raised
FairSpec == Spec /\ \A j \in JobIds : WF_vars(simulate_document_processing(j))

NextRetry ==
    \/ \E arg \in MaxRetriesArgs : execute_with_retry(arg)
    \/ \E v \in Values : FuncReturns(v)
    \/ \E e \in ExceptionPool : \E u \in JitterSamples(JitterOf(rx.attempt)) : FuncRaises(e, u)
    \/ AlertCritical
    \/ WakeUp
    \/ \E attempt \in 0 .. MaxDelayAttempt : \E u \in JitterSamples(JitterOf(attempt)) :
          delay_call(attempt, u)
    \/ FnDone

SpecRetry == Init /\ [][NextRetry]_vars

\* func always returns or raises, the sleep always ends
FairSpecRetry == SpecRetry /\ WF_vars(NextRetry)

(***************************************************************************)
(* The cache store on its own: any caller, any key.                        *)
(***************************************************************************)
NextCache ==
    \/ \E url_configured, ping_ok \in BOOLEAN : CacheManagerInit(url_configured, ping_ok)
    \/ \E key \in CacheKeys : get(key)
    \/ \E key \in CacheKeys :
          \E value \in {[analysis |-> "first"], [analysis |-> "second"]} :
             \E ttl \in (-1) .. MaxTTL : set(key, value, ttl)
    \/ \E key \in CacheKeys : delete(key)
    \/ \E pattern \in {"d1", "analyzed_content:*"} : clear_pattern(pattern)
    \/ \E key \in CacheKeys : exists(key)
    \/ Tick(1)

SpecCache == Init /\ [][NextCache]_vars

(***************************************************************************)
(* The store and analyze_content while the connection to Redis comes and   *)
(* goes.                                                                   *)
(***************************************************************************)
NextOutage ==
    \/ \E url_configured, ping_ok \in BOOLEAN : CacheManagerInit(url_configured, ping_ok)
    \/ \E up \in BOOLEAN : RedisConnection(up)
    \/ \E key \in CacheKeys : get(key)
    \/ \E d \in DocumentIds : set_analyzed_content(d, AnalysisResult(SubSteps))
    \/ \E key \in CacheKeys : delete(key)
    \/ clear_pattern("analyzed_content:*")
    \/ \E doc \in {NormalizedDocument("d1"), NoIdDocument} : analyze_content(1, doc)
    \/ \E raises \in BOOLEAN : SubStep(1, raises)
    \/ CacheLookup(1)
    \/ CacheResult(1)

SpecOutage == Init /\ [][NextOutage]_vars

(***************************************************************************)
(* analyze_content beside the other holders of the store.                  *)
(***************************************************************************)
NextAnalyze ==
    \/ \E url_configured, ping_ok \in BOOLEAN : CacheManagerInit(url_configured, ping_ok)
    \/ \E d \in DocumentIds : set_analyzed_content(d, AnalysisResult(SubSteps))
    \/ Tick(AnalyzedContentTTL)
    \/ \E c \in Callers : \E doc \in {NormalizedDocument(d) : d \in DocumentIds} \cup {NoIdDocument} :
          analyze_content(c, doc)
    \/ \E c \in Callers : CacheLookup(c)
    \/ \E c \in Callers : \E raises \in BOOLEAN : SubStep(c, raises)
    \/ \E c \in Callers : CacheResult(c)

SpecAnalyze == Init /\ [][NextAnalyze]_vars

(***************************************************************************)
(* _chunk_content, _extract_concepts and _identify_relationships as        *)
(* functions of their arguments.                                           *)
(***************************************************************************)
NextChunk ==
    \/ \E sections \in ChunkDocuments : ChunkCall(sections)
    \/ ChunkDone

SpecChunk == Init /\ [][NextChunk]_vars

NextExtract ==
    \/ \E sections \in ExtractDocuments : \E nlp \in BOOLEAN : extract_concepts(sections, nlp)
    \/ classify_relationships
    \/ ExtractDone
    \/ \E concept \in FnTerms : \E all_text \in FnTexts : \E frequency \in 0 .. MaxFrequency :
          score_call(concept, all_text, frequency)
    \/ \E concept1, concept2 \in {"Heat", "Rain", "Snow"} : \E sections \in RelDocuments :
          relation_call(concept1, concept2, sections)
    \/ FnDone

SpecExtract == Init /\ [][NextExtract]_vars

(***************************************************************************)
(* Claims about the job orchestrator, checked under Spec.                  *)
(***************************************************************************)
Known(j) == processing_jobs[j] # NoJob

Terminal(j) == Known(j) /\ processing_jobs[j].status \in {"completed", "failed"}

Ended(j) == pc[j] = "ended"

\* C1 (as claimed): once a job's status is completed or failed, no later
\* statement of its task changes its status, progress, message or
\* study_guide_id.
C1_TerminalNeverMutated ==
    [][\A j \in JobIds :
          Terminal(j) =>
              /\ processing_jobs'[j].status = processing_jobs[j].status
              /\ processing_jobs'[j].progress = processing_jobs[j].progress
              /\ processing_jobs'[j].message = processing_jobs[j].message
              /\ processing_jobs'[j].study_guide_id = processing_jobs[j].study_guide_id
      ]_vars

\* C2: in every step the progress written to a job's record is at least the
\* progress it had, from creation on and through the failure handler.
C2_ProgressNonDecreasing ==
    [][\A j \in JobIds :
          Known(j) => processing_jobs'[j].progress >= processing_jobs[j].progress
      ]_vars

\* a task that ran to its end through the handler, with progress moved off 0
C2_Witness ==
    \E j \in JobIds :
        /\ Ended(j)
        /\ exc[j] # NoExc
        /\ processing_jobs[j].progress > 0

\* C3 (as claimed): a task that has ended without any stage (parse, analyze,
\* generate, persist) having raised leaves its job completed at progress 100.
C3_SuccessfulRunCompletes ==
    \A j \in JobIds :
        (Ended(j) /\ exc[j].line \notin StageLines) =>
            /\ processing_jobs[j].status = "completed"
            /\ processing_jobs[j].progress = 100

\* the handler has written status and message for the exception it caught
HandlerDone(j) == exc[j] # NoExc /\ pc[j] \in {"L235", "ended"}

\* C4: from the moment the try body has raised, progress is not written
\* again, and once the handler has written its two fields the job is failed
\* with a message that is "Processing failed: " followed by the error's text.
C4_FailureKeepsProgress ==
    /\ [](\A j \in JobIds :
             HandlerDone(j) =>
                 /\ processing_jobs[j].status = "failed"
                 /\ processing_jobs[j].message = "Processing failed: " \o exc[j].text
                 /\ Contains(processing_jobs[j].message, exc[j].text))
    /\ [][\A j \in JobIds :
             (Known(j) /\ exc'[j] # NoExc) =>
                 processing_jobs'[j].progress = processing_jobs[j].progress
       ]_vars

\* the handler has run for a job whose progress had been raised to 5
C4_Witness ==
    \E j \in JobIds :
        /\ HandlerDone(j)
        /\ Ended(j)
        /\ processing_jobs[j].progress = 5
        /\ processing_jobs[j].status = "failed"

\* C5: every answer of a status query shows the fields of whole updates only:
\* completed comes with progress 100 and a study guide id, failed with the
\* failure message, progress 5 with a parsing message, progress 0 with the
\* record as created.
C5_ConsistentSnapshot ==
    status_response.kind = "200" =>
        /\ status_response.status = "completed" =>
              /\ status_response.progress = 100
              /\ status_response.study_guide_id # "unset"
        /\ status_response.status = "failed" =>
              /\ Len(status_response.message) >= 19
              /\ SubSeq(status_response.message, 1, 19) = "Processing failed: "
        /\ (status_response.status = "processing" /\ status_response.progress = 5) =>
              status_response.message \in
                  {"Starting document parsing...", "Parsing document content..."}
        /\ status_response.progress = 0 =>
              /\ status_response.status = "processing"
              /\ status_response.message = NewJobRecord(0).message

\* a query answered after the failure update
C5_Witness ==
    /\ status_response.kind = "200"
    /\ status_response.status = "failed"
    /\ status_response.progress = 5

\* C6: a step that produces a new answer leaves the registry as it was, and
\* the answer is a 200 carrying the record's fields exactly when the id had
\* been created, a 404 otherwise.
C6_StatusQuery ==
    [][status_response' # status_response =>
          /\ processing_jobs' = processing_jobs
          /\ IF JobKnown(status_response'.job_id)
             THEN status_response' =
                      StatusOf(status_response'.job_id,
                               processing_jobs[status_response'.job_id])
             ELSE status_response'.kind = "404"
      ]_vars

\* an unknown id was asked for while the registry holds a finished job
C6_Witness ==
    /\ status_response.kind = "404"
    /\ \E j \in JobIds : Terminal(j) /\ Ended(j)
    /\ \E j \in JobIds : ~Known(j)

\* C10 (as claimed): a job is failed only after the retry executor has given
\* up on one of its calls (Permanent, Critical, or budget exhausted).
C10_FailedOnlyAfterRetryDecision ==
    \A j \in JobIds :
        (Known(j) /\ processing_jobs[j].status = "failed") => rx.pc = "raised"

(***************************************************************************)
(* Claims about the retry executor, checked under SpecRetry.               *)
(***************************************************************************)
Calls == Len(rx.log)

Failure(i) == rx.log[i].kind = "raise"

\* the first k calls of func all failed with an error classified Transient
TransientPrefix(k) ==
    \A i \in 1 .. k : Failure(i) /\ rx.log[i].severity = "TRANSIENT"

\* every call of func so far failed with a Transient or Recoverable error
AllRetryable ==
    \A i \in 1 .. Calls :
        Failure(i) /\ rx.log[i].severity \in {"TRANSIENT", "RECOVERABLE"}

RetryDone == rx.pc \in {"returned", "raised"}

\* C7: after k <= max_retries Transient failures in a row the executor has
\* slept k times and goes on to call func again; when call k+1 then returns,
\* the executor returns that value, having called func k+1 times and slept k
\* times.
C7_TransientThenSuccess ==
    /\ (rx.pc # "idle" /\ TransientPrefix(Calls) /\ Calls <= rx.max_retries) =>
          /\ rx.pc \in {"attempt", "sleeping"}
          /\ rx.sleeps = Calls
    /\ (Calls >= 1 /\ rx.log[Calls].kind = "return" /\ TransientPrefix(Calls - 1)) =>
          /\ rx.pc = "returned"
          /\ rx.result = rx.log[Calls].value
          /\ rx.sleeps = Calls - 1
          /\ rx.attempt = Calls - 1

\* two Transient failures, then success, with the default budget of 3
C7_Witness ==
    /\ rx.pc = "returned"
    /\ rx.max_retries = DefaultMaxRetries
    /\ Calls = 3
    /\ TransientPrefix(2)
    /\ rx.sleeps = 2

\* C8: a call of func that failed with an error classified Permanent or
\* Critical is the last call: no sleep follows it, the executor ends raising
\* that same exception, and for Critical the alert has been emitted by then.
C8_NoRetryOfPermanentOrCritical ==
    \A i \in 1 .. Calls :
        (Failure(i) /\ rx.log[i].severity \in {"PERMANENT", "CRITICAL"}) =>
            /\ i = Calls
            /\ rx.sleeps = Calls - 1
            /\ rx.pc \in {"alert", "raised"}
            /\ rx.pc = "alert" => rx.log[i].severity = "CRITICAL"
            /\ rx.pc = "raised" =>
                  /\ rx.raised = rx.log[i].exc
                  /\ rx.log[i].severity = "CRITICAL" => rx.alerts = <<rx.log[i].exc>>

\* a Critical failure on the first call, with the whole default budget left
C8_Witness ==
    /\ rx.pc = "raised"
    /\ rx.max_retries = DefaultMaxRetries
    /\ Calls = 1
    /\ Failure(1)
    /\ rx.log[1].severity = "CRITICAL"
    /\ rx.sleeps = 0

\* the budget is respected and the last retryable failure is what is raised
RetryBounded ==
    rx.pc # "idle" =>
        /\ Calls <= Max(rx.max_retries + 1, 0)
        /\ (AllRetryable /\ Calls < rx.max_retries + 1) => ~RetryDone
        /\ (AllRetryable /\ Calls >= 1 /\ Calls = rx.max_retries + 1) =>
              /\ rx.pc = "raised"
              /\ rx.raised = rx.log[Calls].exc

\* C9: func is called at most max_retries + 1 times; while every call failed
\* with a retryable error and calls remain the executor has not given up, and
\* when call max_retries + 1 fails too the executor raises that call's
\* exception; every invocation ends (FairSpecRetry).
C9_RetryTerminates ==
    /\ []RetryBounded
    /\ (rx.pc # "idle") ~> RetryDone

\* four retryable failures with the default budget
C9_Witness ==
    /\ rx.pc = "raised"
    /\ rx.max_retries = DefaultMaxRetries
    /\ Calls = DefaultMaxRetries + 1
    /\ AllRetryable

(***************************************************************************)
(* Claims about analyze_content, checked under SpecAnalyze.                *)
(***************************************************************************)
\* caller c executes the cache lookup of lines 50-54 for a document that
\* has a document_id
LooksUp(c) ==
    /\ an[c].pc = "line50"
    /\ an'[c].pc # "line50"
    /\ an[c].document.has_id

\* the unexpired entry of the document of caller c, NoneValue when there is none
CachedFor(c) == get_analyzed_content(cache, an[c].document.document_id)

StepPcs == {"line" \o ToString(StepLine(i)) : i \in 1 .. Len(SubSteps)}

\* C11 (as claimed): a lookup that finds an unexpired entry for the
\* document_id makes the call return exactly that entry, with no sub-step
\* run and the cache store left as it was.
C11_CacheHitReturnsCached ==
    [][\A c \in Callers :
          (LooksUp(c) /\ Truthy(CachedFor(c))) =>
              /\ an'[c].pc = "returned"
              /\ an'[c].result = CachedFor(c)
              /\ an'[c].steps = <<>>
              /\ an'[c].writes = 0
              /\ cache'.memory_cache = cache.memory_cache
              /\ cache'.redis_db = cache.redis_db]_vars

\* C12 (as claimed): a lookup that finds no entry for the document_id sends
\* the call into extraction; the call reaches the cache write only with the
\* five sub-steps run in order, and the write stores the assembled result
\* under analyzed_content:{document_id} for AnalyzedContentTTL seconds and
\* returns it, so that a lookup right after it finds an equal result.
C12_CacheMissRunsAndStores ==
    [][\A c \in Callers :
          /\ (LooksUp(c) /\ ~Truthy(CachedFor(c))) => an'[c].pc = "line58"
          /\ (an[c].pc = "line78" /\ an'[c].pc # "line78" /\ an[c].document.has_id) =>
                LET key == AnalyzedContentKey(an[c].document.document_id) IN
                /\ an[c].steps = SubSteps
                /\ an'[c].pc = "returned"
                /\ an'[c].result = AnalysisResult(SubSteps)
                /\ GetValue(cache', key) = an'[c].result
                /\ cache'.last_set[key].ttl = AnalyzedContentTTL]_vars

C14_BothCallersComplete ==
    \A c1, c2 \in Callers :
        (/\ c1 # c2
         /\ an[c1].pc \in {"returned", "raised"}
         /\ an[c2].pc \in {"returned", "raised"}
         /\ an[c1].document.has_id
         /\ an[c2].document = an[c1].document
         /\ \A c \in {c1, c2} : an[c].exc.type # "Exception") =>
            /\ \A c \in {c1, c2} :
                  /\ an[c].pc = "returned"
                  /\ an[c].result = AnalysisResult(SubSteps)
            /\ cache.last_set[AnalyzedContentKey(an[c1].document.document_id)].called

(***************************************************************************)
(* Claims about the cache store, checked under SpecCache.                  *)
(***************************************************************************)
\* the last set on the key of the last response
LastSet == cache.last_set[cache.response.key]

\* the last response answers a lookup op of a key whose last set succeeded
\* with a positive ttl
AnswersAfterSet(op) ==
    /\ cache.response.op = op
    /\ LastSet.called
    /\ LastSet.ok
    /\ LastSet.ttl > 0

\* C15: a get answered before the ttl of the last successful set on its key
\* has elapsed, with no delete of that key in between, returns the value of
\* that set, whatever was done to the other keys and whatever was set on
\* the key before.
C15_RoundTrip ==
    (AnswersAfterSet("get") /\ cache.response.at < LastSet.at + LastSet.ttl) =>
        cache.response.value = LastSet.value

\* both keys were set, this one twice, and the get returned the later value
C15_Witness ==
    /\ AnswersAfterSet("get")
    /\ cache.response.at < LastSet.at + LastSet.ttl
    /\ cache.response.value = LastSet.value
    /\ LastSet.at > 0
    /\ \E k \in CacheKeys \ {cache.response.key} : cache.last_set[k].called
    /\ \/ /\ ~cache.use_redis
          /\ cache.memory_cache[cache.response.key].expiry = Expiry([now |-> LastSet.at], LastSet.ttl)
       \/ /\ cache.use_redis
          /\ cache.redis_db[cache.response.key].expire_at = LastSet.at + LastSet.ttl

\* C16 (as claimed): a get or exists answered when the ttl of the last set
\* on its key, whatever its sign, has elapsed finds nothing.
C16_ExpiryForEveryTTL ==
    (/\ cache.response.op \in {"get", "exists"}
     /\ LastSet.called
     /\ cache.response.at >= LastSet.at + LastSet.ttl) =>
        /\ cache.response.op = "get" => cache.response.value = NoneValue
        /\ cache.response.op = "exists" => cache.response.value = FALSE

\* C16 (amended): a get or exists answered when the positive ttl of the last
\* successful set on its key has elapsed finds nothing.
C16_ExpiryForPositiveTTL ==
    ((AnswersAfterSet("get") \/ AnswersAfterSet("exists"))
        /\ cache.response.at >= LastSet.at + LastSet.ttl) =>
        /\ cache.response.op = "get" => cache.response.value = NoneValue
        /\ cache.response.op = "exists" => cache.response.value = FALSE

\* exists answered at the very second the ttl has elapsed
C16_Witness ==
    /\ AnswersAfterSet("exists")
    /\ cache.response.at = LastSet.at + LastSet.ttl
    /\ cache.response.value = FALSE

(***************************************************************************)
(* Claims about _chunk_content, checked under SpecChunk.  A chunk's        *)
(* content is compared up to the whitespace at its two ends, which         *)
(* strip() of lines 402 and 415 removes.                                   *)
(***************************************************************************)
SectionSize(i) == Len(ck.sections[i].content)

RECURSIVE SizeUpTo(_)
SizeUpTo(n) == IF n = 0 THEN 0 ELSE SizeUpTo(n - 1) + SectionSize(n)

\* the size units of all sections
TotalSize == SizeUpTo(Len(ck.sections))

\* the contents of sections i .. j joined by single spaces and trimmed
Span(i, j) ==
    Strip(Join([k \in 1 .. (j - i + 1) |-> ck.sections[i + k - 1].content], " "))

AllAtOrOverBudget == \A i \in 1 .. Len(ck.sections) : SectionSize(i) >= MaxChunkSize

ChunksAreSpans(starts) ==
    /\ Len(ck.chunks) = Len(starts)
    /\ \A k \in 1 .. Len(starts) :
          LET first == starts[k]
              last == IF k < Len(starts) THEN starts[k + 1] - 1 ELSE Len(ck.sections)
          IN  /\ ck.chunks[k].content = Span(first, last)
              /\ Len(ck.chunks[k].content) > MaxChunkSize =>
                    (first = last /\ SectionSize(first) > MaxChunkSize)

\* C18: the sections are cut into consecutive groups and the chunks are, in
\* order, the groups: each chunk is the contents of its group joined by
\* single spaces, so every section is whole in exactly one chunk and in
\* document order; a document with a section has a chunk; a chunk over the
\* budget is one over-budget section alone.
C18_SectionsWholeInOrder ==
    ck.pc = "returned" =>
        IF Len(ck.sections) = 0 THEN ck.chunks = <<>>
        ELSE \E cuts \in SUBSET (2 .. Len(ck.sections)) :
                ChunksAreSpans(Ascending(cuts \cup {1}))

\* two sections share a chunk and an over-budget section has its own
C18_Witness ==
    /\ ck.pc = "returned"
    /\ Len(ck.sections) = 3
    /\ Len(ck.chunks) = 2
    /\ \E k \in 1 .. 2 : Len(ck.chunks[k].content) > MaxChunkSize

(***************************************************************************)
(* Claims about _extract_concepts and _identify_relationships, checked     *)
(* under SpecExtract.                                                      *)
(***************************************************************************)
Extracted == ex.pc \in {"extracted", "classified"}

\* the place of a concept in the order of extraction
PlaceAppended(concept) == CHOOSE i \in 1 .. Len(ex.appended) : ex.appended[i] = concept

\* the concepts returned are the concepts appended, each once
SameConcepts ==
    /\ Len(ex.concepts) = Len(ex.appended)
    /\ \A i \in 1 .. Len(ex.appended) :
          Cardinality({j \in 1 .. Len(ex.concepts) : ex.concepts[j] = ex.appended[i]}) = 1

\* scores never increase along the list, and concepts of equal score stand
\* in the order of extraction
SortedStable ==
    \A i, j \in 1 .. Len(ex.concepts) :
        i < j =>
            /\ AtLeast(ex.concepts[i].importance_score, ex.concepts[j].importance_score)
            /\ AtLeast(ex.concepts[j].importance_score, ex.concepts[i].importance_score) =>
                  PlaceAppended(ex.concepts[i]) < PlaceAppended(ex.concepts[j])

\* C19 (as claimed): no relationship has its from term equal to its to
\* term, and no two relationships are over the same unordered pair of terms.
C19_NoSelfNoDuplicatePair ==
    ex.pc = "classified" =>
        /\ \A k \in 1 .. Len(ex.relationships) :
              ex.relationships[k].from # ex.relationships[k].to
        /\ \A k, m \in 1 .. Len(ex.relationships) :
              k # m => {ex.relationships[k].from, ex.relationships[k].to}
                          # {ex.relationships[m].from, ex.relationships[m].to}

\* C20 (as claimed): for a document with a non-empty section, with and
\* without the spaCy pipeline, the concept list is not empty, its scores
\* never increase, and concepts of equal score are in extraction order.
C20_NonEmptySortedStable ==
    (Extracted /\ \E i \in 1 .. Len(ex.sections) : ex.sections[i] # "") =>
        /\ ex.concepts # <<>>
        /\ SameConcepts
        /\ SortedStable

\* C20 (amended): with and without the spaCy pipeline the concept list holds
\* the candidates that pass the length and score filters, none when no
\* candidate does; its scores never increase, and concepts of equal score
\* are in extraction order.
C20_SortedStable ==
    Extracted => (SameConcepts /\ SortedStable)

\* with the pipeline: two concepts of equal score ahead of a lower one
C20_Witness ==
    /\ Extracted
    /\ ex.nlp
    /\ Len(ex.concepts) >= 3
    /\ ex.concepts[1].importance_score = ex.concepts[2].importance_score
    /\ PlaceAppended(ex.concepts[1]) < PlaceAppended(ex.concepts[2])
    /\ Greater(ex.concepts[2].importance_score, ex.concepts[3].importance_score)
    /\ PlaceAppended(ex.concepts[3]) < PlaceAppended(ex.concepts[1])

\* 0 <= score <= 1
InUnitInterval(score) == AtLeast(score, Score(0, 1)) /\ AtLeast(Score(1, 1), score)

\* C21: the score _calculate_importance_score returns for any term, text
\* and frequency from 0 up, and the score of every concept either path of
\* _extract_concepts returns, is at least 0 and at most 1.
C21_ScoreInUnitInterval ==
    /\ fn.pc = "scored" => InUnitInterval(fn.score)
    /\ Extracted => \A i \in 1 .. Len(ex.concepts) :
                        InUnitInterval(ex.concepts[i].importance_score)

\* frequency 0 and a term that is not in the text: the score is 0
C21_Witness ==
    /\ fn.pc = "scored"
    /\ fn.frequency = 0
    /\ ~Contains(Lower(fn.all_text), Lower(fn.concept))
    /\ fn.all_text # ""
    /\ fn.score = Score(0, 1000)

(***************************************************************************)
(* Further claims about ErrorRecoveryManager, checked under SpecRetry.     *)
(***************************************************************************)
\* the bands in the order Transient, Recoverable, Permanent, Critical
BandNames == <<"TRANSIENT", "RECOVERABLE", "PERMANENT", "CRITICAL">>

\* the bands of which some signature occurs in the text of e
MatchedBands(e) ==
    LET signatures == <<TransientKeywords, RecoverableKeywords,
                        PermanentKeywords, CriticalKeywords>>
    IN  {b \in 1 .. 4 : \E k \in signatures[b] : Contains(Lower(Str(e)), k)}

\* the severity the type of e alone stands for
SeverityOfType(e) ==
    IF Bases(e.type) \cap {"TimeoutError", "ConnectionError", "OSError"} # {} THEN "TRANSIENT"
    ELSE IF Bases(e.type) \cap {"ValueError", "AttributeError", "KeyError"} # {} THEN "PERMANENT"
    ELSE IF "RuntimeError" \in Bases(e.type) THEN "CRITICAL"
    ELSE "RECOVERABLE"

\* the failure classified last, if the log ends with one
LastRaise == IF rx.log # <<>> /\ rx.log[Len(rx.log)].kind = "raise"
             THEN {rx.log[Len(rx.log)]} ELSE {}

\* C22: the failure just classified has the earliest band, in the order
\* Transient, Recoverable, Permanent, Critical, of which a signature occurs
\* in its text; its type decides only when no signature occurs, and a
\* failure with no signature and no listed type is Recoverable.
C22_FirstMatchingBand ==
    \A entry \in LastRaise :
        LET matched == MatchedBands(entry.exc) IN
        IF matched # {}
        THEN entry.severity = BandNames[CHOOSE b \in matched : \A o \in matched : b <= o]
        ELSE entry.severity = SeverityOfType(entry.exc)

\* after a failure decided by its type, a failure with signatures of two
\* bands and a type of a third
C22_Witness ==
    /\ Len(rx.log) = 2
    /\ rx.log[1].kind = "raise"
    /\ rx.log[1].severity = "TRANSIENT"
    /\ rx.log[1].exc.text = "Disk full"
    /\ \E entry \in LastRaise :
          /\ SeverityOfType(entry.exc) # entry.severity
          /\ Cardinality(MatchedBands(entry.exc)) >= 2

\* min(1 s * 2^n, 60 s) in milliseconds
Backoff(n) == IF n >= 6 THEN 60000 ELSE 1000 * (2 ^ n)

\* delay is Backoff(n) adjusted by at most 10% either way, and not negative
WithinTenPercent(delay, n) ==
    /\ 10 * delay >= 9 * Backoff(n)
    /\ 10 * delay <= 11 * Backoff(n)
    /\ delay >= 0

\* C23: the number of sleeps so far is the number of attempts that were
\* followed by another attempt: one per retried attempt, one more while the
\* sleep after the current attempt lasts, none after the attempt that ended
\* the call; the sleep after attempt n, and the delay _calculate_delay gives
\* for any n, is min(1 s * 2^n, 60 s) within 10%, never negative.
C23_OneBackoffPerRetry ==
    /\ rx.pc \in {"attempt", "returned", "raised", "alert"} => rx.sleeps = rx.attempt
    /\ rx.pc = "sleeping" =>
          /\ rx.sleeps = rx.attempt + 1
          /\ rx.attempt < rx.max_retries
          /\ WithinTenPercent(rx.delay, rx.attempt)
    /\ fn.pc = "delayed" => WithinTenPercent(fn.delay, fn.attempt)

\* the call ended after its third attempt, with two sleeps behind it, the
\* second of 2 s plus 10%
C23_Witness ==
    /\ rx.pc = "raised"
    /\ rx.max_retries = 2
    /\ rx.attempt = 2
    /\ rx.sleeps = 2
    /\ rx.delay = 2200
    /\ Len(rx.log) = 3

(***************************************************************************)
(* Further claim about _chunk_content, checked under SpecChunk.            *)
\* C29 (as claimed): whatever max_retries is passed, 0 and negative values
\* included, a call that is over has invoked func at least once, and it has
\* returned what the last invocation returned or raised an exception that
\* an invocation of func raised.
C29_FuncInvokedOutcomeFromFunc ==
    rx.pc \in {"returned", "raised"} =>
        /\ Len(rx.log) >= 1
        /\ rx.pc = "returned" =>
               rx.log[Len(rx.log)] = [kind |-> "return", value |-> rx.result]
        /\ rx.pc = "raised" =>
               \E i \in 1 .. Len(rx.log) :
                   /\ rx.log[i].kind = "raise"
                   /\ rx.log[i].exc = rx.raised

(***************************************************************************)
\* the position and type of section i, as a chunk's metadata
TagOf(i) == [position |-> ck.sections[i].position, type |-> ck.sections[i].type]

\* C24 (as claimed): every chunk but the last, flushed because the next
\* section did not fit, carries the position and type of the first section
\* of its group, and the last chunk carries those of the last section.
C24_TaggedWithFirstSection ==
    (ck.pc = "returned" /\ Len(ck.sections) > 0) =>
        \E cuts \in SUBSET (2 .. Len(ck.sections)) :
            LET starts == Ascending(cuts \cup {1}) IN
            /\ ChunksAreSpans(starts)
            /\ \A k \in 1 .. Len(starts) :
                  ck.chunks[k].metadata =
                      IF k < Len(starts) THEN TagOf(starts[k]) ELSE TagOf(Len(ck.sections))

(***************************************************************************)
(* Further claims about the concept extractor and the relationship         *)
(* classifier, checked under SpecExtract.                                  *)
(***************************************************************************)
\* the window of the last _determine_relationship_type call
FnContext == RelationContext(fn.concept1, fn.concept2, AllText(fn.sections))

RuleNames == <<"causes", "part_of", "is_a", "contrasts_with">>

\* the rules of which a phrasing occurs in the window between the terms
MatchedRules ==
    LET c1 == Lower(fn.concept1)
        c2 == Lower(fn.concept2)
        phrasings == <<{<<c1, "causes", c2>>, <<c2, "caused by", c1>>},
                       {<<c1, "part of", c2>>, <<c2, "contains", c1>>},
                       {<<c1, "is a", c2>>, <<c1, "type of", c2>>},
                       {<<c1, "contrasts with", c2>>, <<c1, "opposite of", c2>>}>>
    IN  {r \in 1 .. 4 : \E ph \in phrasings[r] :
                            PatternMatches(FnContext.context, ph[1], ph[2], ph[3])}

\* C25: the type is one of six; it is related_to when a term does not occur
\* in the text; otherwise it is that of the earliest rule, in the order
\* causes, part_of, is_a, contrasts_with, of which a phrasing matches, and
\* when none matches associated_with for first occurrences less than 100
\* characters apart and related_to else.
C25_FirstMatchingRule ==
    fn.pc = "typed" =>
        /\ fn.type \in {"causes", "part_of", "is_a", "contrasts_with",
                        "associated_with", "related_to"}
        /\ fn.type = IF ~FnContext.found THEN "related_to"
                     ELSE IF MatchedRules # {}
                     THEN RuleNames[CHOOSE r \in MatchedRules : \A o \in MatchedRules : r <= o]
                     ELSE IF FnContext.distance < 100 THEN "associated_with"
                     ELSE "related_to"

\* phrasings of part_of and of is_a both match, and the type is part_of
C25_Witness ==
    /\ fn.pc = "typed"
    /\ FnContext.found
    /\ MatchedRules = {2, 3}
    /\ fn.type = "part_of"

\* C26 (as claimed): no two concepts of the list returned have terms that
\* are equal once lower-cased, or that _check_concept_similarity takes for
\* duplicates (lengths at most 2 apart, more than 0.8 of the characters
\* equal position by position).
C26_NoDuplicateTerms ==
    Extracted =>
        \A i, j \in 1 .. Len(ex.concepts) :
            i < j =>
                /\ Lower(ex.concepts[i].term) # Lower(ex.concepts[j].term)
                /\ ~check_concept_similarity(ex.concepts[i].term, ex.concepts[j].term)

(***************************************************************************)
(* Further claims about the job registry, checked under Spec and FairSpec. *)
(***************************************************************************)
\* task a executes one of its statements
TaskStep(a) == pc[a] \notin {"none", "ended"} /\ pc'[a] # pc[a]

\* C27: every statement of the processing task of a job A leaves the
\* registry record of every other job B as it was, whichever way the tasks
\* and the handlers interleave.
C27_OnlyOwnRecordWritten ==
    [][\A a \in JobIds :
          TaskStep(a) => \A b \in JobIds \ {a} : processing_jobs'[b] = processing_jobs[b]]_vars

\* the task of one job has written its record while the record of another
\* job, created before it ran, is still as created
C27_Witness ==
    \E a, b \in JobIds :
        /\ a # b
        /\ pc[a] = "L234"
        /\ processing_jobs[a].status = "failed"
        /\ processing_jobs[a].progress = 5
        /\ pc[b] = "L129"
        /\ processing_jobs[b] = NewJobRecord(processing_jobs[b].created_at)

\* C28: every job created is eventually completed or failed, given that the
\* event loop runs its task and every call the task awaits returns or
\* raises: no job stays in processing forever.
C28_EveryJobEnds ==
    \A j \in JobIds :
        (processing_jobs[j].status = "processing")
            ~> (processing_jobs[j].status \in {"completed", "failed"})

\* both jobs were uploaded, and the tasks of both have ended with the record
\* failed
C28_Witness ==
    \A j \in JobIds :
        /\ pc[j] = "ended"
        /\ processing_jobs[j].status = "failed"
        /\ processing_jobs[j].updated_at = processing_jobs[j].created_at

(***************************************************************************)
(* Claims about the store and analyze_content when the Redis connection    *)
(* fails, checked under SpecOutage.                                        *)
(***************************************************************************)
\* the commands of the Redis client raise
BackendFails == cache.constructed /\ cache.use_redis /\ ~cache.redis_up

\* a method of the store is called while the commands raise: it answers from
\* its except branch (get None, lines 64-67; set and delete False, lines
\* 82-84 and 98-100; clear_pattern 0, lines 123-125) and the entries of the
\* server stay as they are
FailureAnswered ==
    (BackendFails /\ cache'.redis_up = cache.redis_up /\ an' = an) =>
        /\ cache'.response.op = "get" => cache'.response.value = NoneValue
        /\ cache'.response.op \in {"set", "delete"} => cache'.response.value = FALSE
        /\ cache'.response.op = "clear_pattern" => cache'.response.value = 0
        /\ cache'.redis_db = cache.redis_db

\* frame c of analyze_content passes its cache read (line 50) or its cache
\* write (line 78) while the commands raise: the read goes on to the
\* sub-steps, the write returns what the sub-steps computed
AnalysisGoesOn(c) ==
    (BackendFails /\ an[c].document.has_id /\ an'[c].pc # an[c].pc) =>
        /\ an[c].pc = "line50" => an'[c].pc = "line58"
        /\ an[c].pc = "line78" =>
               /\ an'[c].pc = "returned"
               /\ an'[c].result = AnalysisResult(SubSteps)

\* C30 (as claimed): a failure of the cache backend reaches no caller and
\* fails no analysis: get answers None, set and delete answer False,
\* clear_pattern answers 0, and analyze_content goes on past a failing cache
\* read and returns the fresh result past a failing cache write.
C30_BackendFailureContained ==
    [][FailureAnswered /\ \A c \in Callers : AnalysisGoesOn(c)]_vars

====
